---- MODULE Spec2Model ----
(***************************************************************************)
(* Model of bokeh/command/subcommands/png.py: the `bokeh png` subcommand.  *)
(*                                                                         *)
(* PNG.invoke creates a webdriver session, runs the parent's invoke (which *)
(* calls PNG.write_file once per application) and terminates the session   *)
(* in a finally clause.  PNG.write_file obtains the PNG bytes from         *)
(* PNG.file_contents and writes them to standard output or to a file.      *)
(* PNG.file_contents optionally overrides the size of a single Plot root,  *)
(* requests a screenshot, encodes it into a BytesIO buffer and returns the *)
(* buffer's contents.                                                      *)
(*                                                                         *)
(* The program is single-threaded: `pc` is the position of the one thread. *)
(***************************************************************************)
EXTENDS Integers, Sequences, FiniteSets, TLC

\* ---------------------------------------------------------------- bounds
\* Sizes (argument values and initial plot sizes) range over 0..MaxSize.
MaxSize == 2
\* A document has at most MaxRoots roots.
MaxRoots == 2
\* One invocation exports at most MaxApps applications.
MaxApps == 2

\* ------------------------------------------------------- Python values
\* An Optional[int]: None is the empty tuple, the integer n is <<n>>.
None == <<>>
PyInt(n) == <<n>>
Sizes == 0 .. MaxSize
OptInt == {None} \cup {PyInt(n) : n \in Sizes}

\* Python truthiness of an Optional[int]: None and 0 are falsy.
Truthy(v) == v # None /\ v[1] # 0

\* `a or b` with no right operand evaluated: the mutant that assigns the
\* argument unconditionally.
PyOr_AssignLeft(a, b) == a

\* Python `a or b`: a when a is truthy, b otherwise.
PyOr(a, b) == IF Truthy(a) THEN a ELSE b

\* ------------------------------------------------------------ documents
\* A root is a Plot or some other layout object; both carry two size
\* attributes (for a Plot: plot_height, plot_width).
Root(isPlot, h, w) == [isPlot |-> isPlot, plot_height |-> PyInt(h), plot_width |-> PyInt(w)]

\* Sequences over S of length 0..n.
SeqUpTo(S, n) == UNION {[1 .. k -> S] : k \in 0 .. n}

\* The documents create_document may produce: up to MaxRoots roots of any
\* kinds; the roots of one document start at the same size.
Docs ==
    {[i \in 1 .. Len(kinds) |-> Root(kinds[i], h, w)] :
        kinds \in SeqUpTo(BOOLEAN, MaxRoots), h \in Sizes, w \in Sizes}

\* The output names the parent hands to write_file: '-' is standard output.
Filenames == {"-", "app.png"}

VARIABLES
    args,       \* parsed arguments: width, height (--width/--height), files
    pc,         \* position of the thread
    exc,        \* TRUE while an exception is propagating / has propagated
    driver,     \* self.driver: 0 while the attribute is unset, else a session id
    sessions,   \* webdriver sessions ever created, by id: live flag, terminate calls
    idx,        \* applications the parent has finished
    doc,        \* roots of the document being exported
    filename,   \* output name of the document being exported
    image,      \* file_contents local: the screenshot image object
    buf,        \* file_contents local: the io.BytesIO buffer [data, pos]
    contents,   \* write_file local: the bytes file_contents returned
    docBefore,  \* history: doc.roots when write_file was entered
    trace       \* history: the external effects of the current write_file call

vars == <<args, pc, exc, driver, sessions, idx, doc, filename, image, buf,
          contents, docBefore, trace>>

\* An event of the per-call trace.
Ev(op, arg) == [op |-> op, arg |-> arg]
Log(op, arg) == Append(trace, Ev(op, arg))

\* ---------------------------------------------------------------- Init
Init ==
    /\ args \in [width : OptInt, height : OptInt, files : 1 .. MaxApps]
    /\ pc = "invoke"
    /\ exc = FALSE
    /\ driver = 0
    /\ sessions = <<>>
    /\ idx = 0
    /\ doc = <<>>
    /\ filename = "-"
    /\ image = <<>>
    /\ buf = [data |-> <<>>, pos |-> 0]
    /\ contents = <<>>
    /\ docBefore = <<>>
    /\ trace = <<>>

\* ------------------------------------------------- exception propagation
\* The positions inside the try body of PNG.invoke.
TryBody == {"super", "fc_size", "fc_shot", "fc_save", "fc_seek", "fc_read",
            "wf_out", "wf_write", "wf_after"}

\* Mutant: no finally clause, an exception leaves invoke at once.
HandlerOf_NoFinally(p) == "raised"

\* Mutant: write_file swallows a failure of file_contents and goes on to
\* write whatever contents holds.
HandlerOf_Swallow(p) == IF p \in {"fc_shot", "fc_save"} THEN "wf_out" ELSE "finally"

\* Where an exception raised at position p transfers control: write_file and
\* file_contents have no handler, so from the try body it reaches invoke's
\* finally clause; outside the try body it leaves invoke.
HandlerOf(p) == IF p \in TryBody THEN "finally" ELSE "raised"

Raise(p) ==
    /\ pc' = HandlerOf(p)
    /\ exc' = TRUE
    /\ trace' = Log("raise", p)

\* ------------------------------------------------------------ PNG.invoke
\* Line 88, create_webdriver() returns: a new live session, stored in
\* self.driver; control enters the try body.
Invoke_CreateWebdriver ==
    /\ pc = "invoke"
    /\ sessions' = Append(sessions, [live |-> TRUE, terminated |-> 0])
    /\ driver' = Len(sessions) + 1
    /\ pc' = "super"
    /\ UNCHANGED <<args, exc, idx, doc, filename, image, buf, contents, docBefore, trace>>

\* Line 88, create_webdriver() raises: no session exists, invoke is left
\* before the try statement is entered.
Invoke_CreateWebdriverRaises ==
    /\ pc = "invoke"
    /\ Raise("invoke")
    /\ UNCHANGED <<args, driver, sessions, idx, doc, filename, image, buf, contents, docBefore>>

\* Lines 91-92, the finally clause: terminate_webdriver(self.driver), then
\* the normal return or the re-raise of the pending exception.
Invoke_Finally ==
    /\ pc = "finally"
    /\ sessions' = [sessions EXCEPT ![driver] =
                        [live |-> FALSE, terminated |-> @.terminated + 1]]
    /\ pc' = IF exc THEN "raised" ELSE "done"
    /\ UNCHANGED <<args, exc, driver, idx, doc, filename, image, buf, contents, docBefore, trace>>

\* ------------------------------------- FileOutputSubcommand.invoke (parent)
\* The parent's loop over the applications: create the next application's
\* document, choose its output name and call self.write_file(args, filename, doc).
Super_NextApplication ==
    /\ pc = "super"
    /\ idx < args.files
    /\ \E d \in Docs, f \in Filenames :
        /\ doc' = d
        /\ docBefore' = d
        /\ filename' = f
    /\ image' = <<>>
    /\ buf' = [data |-> <<>>, pos |-> 0]
    /\ contents' = <<>>
    /\ trace' = <<>>
    /\ pc' = "fc_size"
    /\ UNCHANGED <<args, exc, driver, sessions, idx>>

\* The parent fails before or between documents (an application that cannot
\* be built, more outputs than applications, a failing script).
Super_Raises ==
    /\ pc = "super"
    /\ idx < args.files
    /\ Raise("super")
    /\ UNCHANGED <<args, driver, sessions, idx, doc, filename, image, buf, contents, docBefore>>

\* The parent's loop is exhausted: super().invoke returns normally.
Super_Returns ==
    /\ pc = "super"
    /\ idx = args.files
    /\ pc' = "finally"
    /\ UNCHANGED <<args, exc, driver, sessions, idx, doc, filename, image, buf, contents, docBefore, trace>>

\* -------------------------------------------------------- file_contents
\* Mutant: the guard of line 110 always taken.
SizeGiven_Always(a) == TRUE

\* Line 110: args.width is not None or args.height is not None.
SizeGiven(a) == a.width # None \/ a.height # None

\* Mutant: the isinstance test of line 112 left out.
NotSinglePlot_LenOnly(layout) == Len(layout) # 1

\* Line 112: len(layout) != 1 or not isinstance(layout[0], Plot).
NotSinglePlot(layout) == Len(layout) # 1 \/ ~layout[1].isPlot

\* Lines 115-117 applied to the roots: the first root's plot_height and
\* plot_width are reassigned, each to `argument or previous value`.
Override(layout, a) ==
    [layout EXCEPT ![1] =
        [@ EXCEPT !.plot_height = PyOr(a.height, @),
                  !.plot_width = PyOr(a.width, @)]]

\* Lines 110-117: the size block, in one step (no external call but warn).
FileContents_Size ==
    /\ pc = "fc_size"
    /\ IF SizeGiven(args)
       THEN IF NotSinglePlot(doc)
            THEN /\ trace' = Log("warn", <<>>)
                 /\ doc' = doc
            ELSE /\ doc' = Override(doc, args)
                 /\ trace' = Log("override", <<>>)
       ELSE /\ doc' = doc
            /\ trace' = trace
    /\ pc' = "fc_shot"
    /\ UNCHANGED <<args, exc, driver, sessions, idx, filename, image, buf, contents, docBefore>>

\* Mutant: the driver argument left out of the screenshot request, which is
\* then served by a session other than the invocation's.
ScreenshotDriver_Omitted == Len(sessions) + 1

\* Line 119: driver=self.driver.
ScreenshotDriver == driver

\* Whether session d exists and has not been terminated.
Live(d) == d \in DOMAIN sessions /\ sessions[d].live

\* What the capture function renders: the roots with their sizes as they are
\* when the screenshot is requested.
Capture(d) == [i \in 1 .. Len(d) |-> <<d[i].plot_height, d[i].plot_width>>]

\* Line 119, get_screenshot_as_png returns the image object.
FileContents_Screenshot ==
    /\ pc = "fc_shot"
    /\ image' = Capture(doc)
    /\ trace' = Log("shot", [driver |-> ScreenshotDriver, live |-> Live(ScreenshotDriver)])
    /\ pc' = "fc_save"
    /\ UNCHANGED <<args, exc, driver, sessions, idx, doc, filename, buf, contents, docBefore>>

\* Line 119, get_screenshot_as_png raises after being asked.
FileContents_ScreenshotRaises ==
    /\ pc = "fc_shot"
    /\ pc' = HandlerOf("fc_shot")
    /\ exc' = TRUE
    /\ trace' = trace \o <<Ev("shot", [driver |-> ScreenshotDriver, live |-> Live(ScreenshotDriver)]),
                           Ev("raise", "fc_shot")>>
    /\ UNCHANGED <<args, driver, sessions, idx, doc, filename, image, buf, contents, docBefore>>

\* The PNG encoding of an image: the signature followed by the image data.
Encode(img) == <<"PNG">> \o img

\* BytesIO.write: the bytes replace the data from the position on and the
\* position moves past them.
BufWrite(b, bytes) ==
    [data |-> SubSeq(b.data, 1, b.pos) \o bytes
                \o SubSeq(b.data, b.pos + Len(bytes) + 1, Len(b.data)),
     pos |-> b.pos + Len(bytes)]

\* Mutant: the seek left out.
BufSeek_Missing(b, n) == b

\* BytesIO.seek(n).
BufSeek(b, n) == [b EXCEPT !.pos = n]

\* BytesIO.read(): the data from the position to the end.
BufRead(b) == SubSeq(b.data, b.pos + 1, Len(b.data))

\* Lines 120-121: buf = io.BytesIO(); image.save(buf, "png").
FileContents_Save ==
    /\ pc = "fc_save"
    /\ buf' = BufWrite([data |-> <<>>, pos |-> 0], Encode(image))
    /\ trace' = Log("save", Encode(image))
    /\ pc' = "fc_seek"
    /\ UNCHANGED <<args, exc, driver, sessions, idx, doc, filename, image, contents, docBefore>>

\* Line 121, image.save raises.
FileContents_SaveRaises ==
    /\ pc = "fc_save"
    /\ Raise("fc_save")
    /\ UNCHANGED <<args, driver, sessions, idx, doc, filename, image, buf, contents, docBefore>>

\* Line 122: buf.seek(0).
FileContents_Seek ==
    /\ pc = "fc_seek"
    /\ buf' = BufSeek(buf, 0)
    /\ trace' = Log("seek", <<>>)
    /\ pc' = "fc_read"
    /\ UNCHANGED <<args, exc, driver, sessions, idx, doc, filename, image, contents, docBefore>>

\* Line 123 and line 98: return buf.read(), assigned to write_file's contents.
FileContents_Return ==
    /\ pc = "fc_read"
    /\ contents' = BufRead(buf)
    /\ buf' = [buf EXCEPT !.pos = Len(buf.data)]
    /\ trace' = Log("return", BufRead(buf))
    /\ pc' = "wf_out"
    /\ UNCHANGED <<args, exc, driver, sessions, idx, doc, filename, image, docBefore>>

\* ----------------------------------------------------------- write_file
\* Mutant: the test of line 99 inverted.
ToStdout_Inverted(f) == f # "-"

\* Line 99: filename == '-'.
ToStdout(f) == f = "-"

\* Line 100: sys.stdout.buffer.write(contents).
WriteFile_Stdout ==
    /\ pc = "wf_out"
    /\ ToStdout(filename)
    /\ trace' = Log("stdout", contents)
    /\ pc' = "wf_after"
    /\ UNCHANGED <<args, exc, driver, sessions, idx, doc, filename, image, buf, contents, docBefore>>

\* Line 102: io.open(filename, "w+b") succeeds: the file exists and is empty.
WriteFile_Open ==
    /\ pc = "wf_out"
    /\ ~ToStdout(filename)
    /\ trace' = Log("open", [name |-> filename, mode |-> "w+b"])
    /\ pc' = "wf_write"
    /\ UNCHANGED <<args, exc, driver, sessions, idx, doc, filename, image, buf, contents, docBefore>>

\* Line 102: io.open raises (no such directory, no permission): no file was
\* opened.
WriteFile_OpenRaises ==
    /\ pc = "wf_out"
    /\ ~ToStdout(filename)
    /\ Raise("wf_out")
    /\ UNCHANGED <<args, driver, sessions, idx, doc, filename, image, buf, contents, docBefore>>

\* Line 103 and the end of the with block: f.write(contents), then close.
WriteFile_Write ==
    /\ pc = "wf_write"
    /\ trace' = trace \o <<Ev("write", [name |-> filename, data |-> contents]),
                           Ev("close", filename)>>
    /\ pc' = "wf_after"
    /\ UNCHANGED <<args, exc, driver, sessions, idx, doc, filename, image, buf, contents, docBefore>>

\* Line 104: self.after_write_file(args, filename, doc); write_file returns
\* to the parent's loop, which goes on to the next application.
WriteFile_After ==
    /\ pc = "wf_after"
    /\ trace' = Log("after", filename)
    /\ idx' = idx + 1
    /\ pc' = "super"
    /\ UNCHANGED <<args, exc, driver, sessions, doc, filename, image, buf, contents, docBefore>>

\* --------------------------------------------------------- specification
Next ==
    \/ Invoke_CreateWebdriver
    \/ Invoke_CreateWebdriverRaises
    \/ Super_NextApplication
    \/ Super_Raises
    \/ Super_Returns
    \/ FileContents_Size
    \/ FileContents_Screenshot
    \/ FileContents_ScreenshotRaises
    \/ FileContents_Save
    \/ FileContents_SaveRaises
    \/ FileContents_Seek
    \/ FileContents_Return
    \/ WriteFile_Stdout
    \/ WriteFile_Open
    \/ WriteFile_OpenRaises
    \/ WriteFile_Write
    \/ WriteFile_After
    \/ Invoke_Finally

Spec == Init /\ [][Next]_vars

\* ------------------------------------------------- reading the history
\* Positions of one write_file call at which the size block has been run.
AfterSize == {"fc_shot", "fc_save", "fc_seek", "fc_read", "wf_out", "wf_write", "wf_after"}

\* Positions of one write_file call at which file_contents has returned.
AfterReturn == {"wf_out", "wf_write", "wf_after"}

\* The operations of a trace, in order.
Ops(t) == [i \in 1 .. Len(t) |-> t[i].op]

\* How many events of the current call are `op`.
Count(op) == Cardinality({i \in DOMAIN trace : trace[i].op = op})

\* The events of the current call that touch standard output or a file.
IoEvents == SelectSeq(trace, LAMBDA e : e.op \in {"stdout", "open", "write", "close"})

\* The document had exactly one root, a Plot, when the call began.
SinglePlotBefore == Len(docBefore) = 1 /\ docBefore[1].isPlot

\* --width or --height was given.
AnySizeArg == args.width # None \/ args.height # None

\* The current call's production of the contents failed.
ContentsFailed ==
    \E i \in DOMAIN trace :
        trace[i].op = "raise" /\ trace[i].arg \in {"fc_shot", "fc_save"}

\* ------------------------------------------------------------------ C1
\* C1: PNG.invoke acquires the webdriver session before any document is
\* processed: wherever control is inside the try body (the parent's loop,
\* write_file, file_contents) exactly one session exists, self.driver is that
\* session, and it is live and has not been terminated.  Once acquired, the
\* session is terminated exactly once when processing has ended, on the normal
\* return and on the raising exit alike; a normal return implies a session
\* was acquired.
C1_SessionLifecycle ==
    /\ pc \in TryBody \cup {"finally"} =>
            /\ Len(sessions) = 1
            /\ driver = 1
            /\ sessions[1].live
            /\ sessions[1].terminated = 0
    /\ (pc \in {"done", "raised"} /\ sessions # <<>>) =>
            /\ Len(sessions) = 1
            /\ driver = 1
            /\ ~sessions[1].live
            /\ sessions[1].terminated = 1
    /\ pc = "done" => sessions # <<>> /\ ~exc
    /\ pc = "raised" => exc

\* C1 witness: one document was exported, the parent then raised, and invoke
\* was left by the exception with the session terminated once.
C1_Witness ==
    /\ pc = "raised"
    /\ idx = 1
    /\ args.files = 2
    /\ Len(sessions) = 1
    /\ sessions[1].terminated = 1

\* ------------------------------------------------------------------ C2
\* C2: on a document whose only root is a Plot, after the size block every
\* given --height H is the plot's plot_height, every given --width W is the
\* plot's plot_width, and no warning was issued.
C2_GivenSizeIsSet ==
    (pc \in AfterSize /\ SinglePlotBefore) =>
        /\ args.height # None => doc[1].plot_height = args.height
        /\ args.width # None => doc[1].plot_width = args.width
        /\ Count("warn") = 0

\* ------------------------------------------------------------------ C3
\* C3: with --width or --height given and a document that is not a single
\* Plot root (no root, several roots, one non-Plot root), the call issues
\* exactly one warning, leaves every root as it was, and goes on: the next
\* step is the screenshot request, the screenshot is requested once, and when
\* file_contents has returned the contents are the PNG encoding of the
\* unchanged document.
C3_WarnIgnoreAndGoOn ==
    (pc \in AfterSize /\ AnySizeArg /\ ~SinglePlotBefore) =>
        /\ Count("warn") = 1
        /\ Count("override") = 0
        /\ Count("raise") = 0
        /\ doc = docBefore
        /\ pc # "fc_shot" => Count("shot") = 1
        /\ pc \in AfterReturn =>
                /\ contents = Encode(Capture(docBefore))
                /\ contents[1] = "PNG"

\* C3 witness: a size was given, the only root is not a Plot, one warning was
\* issued and file_contents has returned the bytes.
C3_Witness ==
    /\ pc = "wf_out"
    /\ AnySizeArg
    /\ Len(docBefore) = 1
    /\ ~docBefore[1].isPlot
    /\ Count("warn") = 1
    /\ Len(contents) = 2

\* ------------------------------------------------------------------ C4
\* C4: write_file delivers the bytes file_contents returned to one
\* destination.  For filename '-' the only output operation is one write of
\* exactly those bytes to standard output and no file is opened; for any
\* other filename the output operations are open(filename, "w+b"), one write
\* of exactly those bytes to that file, close, and standard output is not
\* written.
C4_OneDestination ==
    /\ pc \in AfterReturn =>
            /\ Count("stdout") > 0 => filename = "-"
            /\ Count("open") > 0 => filename # "-"
    /\ pc = "wf_after" =>
            /\ Count("return") = 1
            /\ \A i \in DOMAIN trace : trace[i].op = "return" => trace[i].arg = contents
            /\ IF filename = "-"
               THEN /\ Ops(IoEvents) = <<"stdout">>
                    /\ IoEvents[1].arg = contents
               ELSE /\ Ops(IoEvents) = <<"open", "write", "close">>
                    /\ IoEvents[1].arg = [name |-> filename, mode |-> "w+b"]
                    /\ IoEvents[2].arg = [name |-> filename, data |-> contents]
                    /\ IoEvents[3].arg = filename

\* C4 witness: the bytes of a one-root document have been written to the
\* named file.
C4_Witness ==
    /\ pc = "wf_after"
    /\ filename = "app.png"
    /\ Count("write") = 1
    /\ Len(contents) = 2

\* ------------------------------------------------------------------ C5
\* The size step's part of the trace: nothing, a warning or an override.
SizeOps == {<<>>, <<"warn">>, <<"override">>}

\* The operations file_contents has performed when control is at p.
StepsBefore(p) ==
    CASE p = "fc_shot" -> <<>>
      [] p = "fc_save" -> <<"shot">>
      [] p = "fc_seek" -> <<"shot", "save">>
      [] p = "fc_read" -> <<"shot", "save", "seek">>
      [] p = "wf_out" -> <<"shot", "save", "seek", "return">>

\* C5: within one file_contents call the steps run in the order size
\* override (when applicable), screenshot request, PNG encoding, return: at
\* every position the operations done so far are that order's prefix, with one
\* screenshot request, made after the override; the image is the capture of
\* the document as the size step left it, and the bytes returned are the whole
\* encoded buffer from its first byte.
C5_StepOrder ==
    /\ pc \in {"fc_shot", "fc_save", "fc_seek", "fc_read", "wf_out"} =>
            \E pre \in SizeOps : Ops(trace) = pre \o StepsBefore(pc)
    /\ pc \in {"fc_seek", "fc_read", "wf_out"} =>
            /\ image = Capture(doc)
            /\ Count("override") = 1 => doc = Override(docBefore, args)
            /\ buf.data = Encode(image)
    /\ pc \in AfterReturn =>
            /\ Count("shot") = 1
            /\ contents = buf.data
            /\ contents = Encode(image)
            /\ contents[1] = "PNG"

\* C5 witness: the override changed the plot's size and file_contents
\* returned the encoding of an image of the new size.
C5_Witness ==
    /\ pc = "wf_out"
    /\ Count("override") = 1
    /\ doc # docBefore
    /\ image = Capture(doc)
    /\ contents = Encode(image)

\* ------------------------------------------------------------------ C6
\* C6: one invocation creates at most one webdriver session, however many
\* applications it exports; every screenshot request passes that session and
\* is made while the session is live (created, not terminated); once the
\* session is terminated control is outside the try body, so no further
\* screenshot can be requested.
C6_SingleLiveSession ==
    /\ Len(sessions) <= 1
    /\ \A i \in DOMAIN trace :
            trace[i].op = "shot" =>
                /\ Len(sessions) = 1
                /\ trace[i].arg.driver = 1
                /\ trace[i].arg.live
    /\ (sessions # <<>> /\ ~sessions[1].live) => pc \in {"done", "raised"}
    /\ pc \in AfterSize => (Len(sessions) = 1 /\ sessions[1].live /\ driver = 1)

\* C6 witness: the second application's screenshot has been requested with
\* the one session of the invocation.
C6_Witness ==
    /\ idx = 1
    /\ pc = "fc_save"
    /\ Count("shot") = 1
    /\ Len(sessions) = 1
    /\ sessions[1].live

\* ------------------------------------------------------------------ C7
\* C7: on a single-Plot document with only one of --width / --height given,
\* the other dimension keeps its previous value: only --height leaves
\* plot_width unchanged, only --width leaves plot_height unchanged.
C7_UngivenDimensionKept ==
    (pc \in AfterSize /\ SinglePlotBefore) =>
        /\ (args.height # None /\ args.width = None) =>
                doc[1].plot_width = docBefore[1].plot_width
        /\ (args.width # None /\ args.height = None) =>
                doc[1].plot_height = docBefore[1].plot_height

\* C7 witness: only --height was given, the plot's height changed and its
\* width is what it was.
C7_Witness ==
    /\ pc = "fc_shot"
    /\ SinglePlotBefore
    /\ args.height # None
    /\ args.width = None
    /\ doc[1].plot_height # docBefore[1].plot_height
    /\ doc[1].plot_width = docBefore[1].plot_width

\* ------------------------------------------------------------------ C8
\* C8: with neither --width nor --height given, file_contents issues no
\* warning and changes no root, whatever the roots are.
C8_NoSizeArgNoEffect ==
    (pc \in AfterSize /\ args.width = None /\ args.height = None) =>
        /\ Count("warn") = 0
        /\ Count("override") = 0
        /\ doc = docBefore

\* C8 witness: no size given, a document of two roots the first of which is
\* not a Plot, and the size block has been passed.
C8_Witness ==
    /\ pc = "fc_shot"
    /\ args.width = None
    /\ args.height = None
    /\ Len(docBefore) = 2
    /\ ~docBefore[1].isPlot
    /\ trace = <<>>

\* ------------------------------------------------------------------ C9
\* C9: when the screenshot request or the encoding raises, the call opens no
\* file, writes nothing to a file or to standard output and does not call
\* after_write_file; and after_write_file is called only after the contents
\* have been written completely (the write to standard output, or the write
\* to the file and its close).
C9_FailureWritesNothing ==
    /\ ContentsFailed =>
            /\ IoEvents = <<>>
            /\ Count("after") = 0
            /\ pc \in {"finally", "raised"}
    /\ \A i \in DOMAIN trace :
            trace[i].op = "after" =>
                \/ \E j \in 1 .. i - 1 :
                        trace[j].op = "stdout" /\ trace[j].arg = contents
                \/ \E j, k \in 1 .. i - 1 :
                        /\ j < k
                        /\ trace[j].op = "write"
                        /\ trace[j].arg.data = contents
                        /\ trace[k].op = "close"

\* C9 witness: the encoding failed for a document bound for a file, invoke
\* has been left, and no output operation was made.
C9_Witness ==
    /\ pc = "raised"
    /\ filename = "app.png"
    /\ \E i \in DOMAIN trace : trace[i].op = "raise" /\ trace[i].arg = "fc_save"
    /\ Count("shot") = 1
    /\ IoEvents = <<>>

====
